---- MODULE Spec2Model ----
(***************************************************************************)
(* Employee service of vacunas_back_nest: the filtered, left-joined,       *)
(* Active-scoped employee reads, their projection, and the create /        *)
(* update / soft-delete flow over the Person, Employee, User and UserRole  *)
(* tables.                                                                 *)
(*                                                                         *)
(* Encoding of JavaScript values.  Every string-valued field holds a TLA+  *)
(* string; the values that are not strings are written as marker strings   *)
(* (Undefined, JsTrue, JsFalse, JsZero) so that a field can be compared    *)
(* whatever it holds.  Numeric keys (ids, dni) are integers and 0 stands   *)
(* for null / undefined there: 0 is falsy in the code's `if (dni)` tests   *)
(* exactly as null and undefined are.  A nullable joined row is the set of *)
(* zero or one rows.                                                       *)
(***************************************************************************)
EXTENDS Integers, FiniteSets, Sequences, TLC

VARIABLES
    persons,               \* Person rows
    employees,             \* Employee rows
    users,                 \* User rows
    userRoles,             \* UserRole rows
    roles,                 \* Role rows
    employeeVaccinations,  \* EmployeeVaccination rows
    vaccines,              \* Vaccine rows
    result,                \* the last createEmploye / updateEmployee call and its outcome
    calls,                 \* number of service calls made so far
    deleted,               \* history: ids of the employees a DELETE call soft-deleted
    proc,                  \* concurrent createEmploye calls: position and locals of each
    filters,               \* the FilterEmployeeDto handed to filterEmployees
    query,                 \* the predicates appended to the query builder, in order
    listed                 \* the outcome of the last listEmployees() call

tables == <<persons, employees, users, userRoles, roles, employeeVaccinations, vaccines>>

vars == <<persons, employees, users, userRoles, roles, employeeVaccinations, vaccines,
          result, calls, deleted, proc, filters, query, listed>>

----------------------------------------------------------------------------
(* Constants of the program and JavaScript values *)

Active == "Active"
Inactive == "Inactive"
DELETE == "DELETE"
UPDATE == "UPDATE"
ADMINISTRATOR == "ADMINISTRATOR"
EMPLOYEE == "EMPLOYEE"

Undefined == "<undefined>"
JsTrue == "<true>"
JsFalse == "<false>"
JsZero == "<0>"

\* JavaScript truthiness of a value, as tested by `if (x)` and `x ? a : b`.
Truthy(v) == v \notin {Undefined, "", JsFalse, JsZero}

\* TypeORM's update(id, partial) leaves a column alone when the property is undefined.
Upd(old, new) == IF new = Undefined THEN old ELSE new

----------------------------------------------------------------------------
(* Bounds and input domains *)

\* Service calls made by the sequential callers.
MaxCalls == 3
\* Concurrent createEmploye calls.
NumCalls == 2

Dnis == {1, 2, 3}
ValidDnis == {1, 2}
Emails == {"a@x.com", "b@x.com"}

\* utils/validateiD applied to String(dni); String(undefined) is never a valid id.
validateID(dni) == dni \in ValidDnis

CreateDtos ==
    { [dni |-> d, firstName |-> "Ana", lastName |-> "Diaz", email |-> e,
       birthDate |-> "1990-01-01", homeAddress |-> "home1", mobilePhone |-> "0991",
       vaccinationStatus |-> JsFalse, role |-> r] :
         d \in Dnis, e \in Emails, r \in {EMPLOYEE} }

UpdateDtos ==
    { [dni |-> d, firstName |-> "Eva", lastName |-> "Diaz", email |-> e,
       birthDate |-> "1990-01-01", homeAddress |-> "home2", mobilePhone |-> Undefined,
       vaccinationStatus |-> JsTrue, password |-> pw, username |-> "eva"] :
         d \in Dnis \cup {0}, e \in Emails \cup {Undefined}, pw \in {Undefined, "secret"} }

----------------------------------------------------------------------------
(* The store *)

NextId(table) == Cardinality(table) + 1

SeedRoles ==
    { [id |-> 1, name |-> ADMINISTRATOR, status |-> Active],
      [id |-> 2, name |-> EMPLOYEE, status |-> Active] }

NoResult ==
    [op |-> "none", outcome |-> "none", dni |-> 0, email |-> Undefined,
     role |-> Undefined, type |-> Undefined, id |-> 0, status |-> Undefined]

----------------------------------------------------------------------------
(* Joined, Active-scoped reads *)

\* LEFT JOIN employee.person ON person.status = Active
JoinedPerson(e) == {p \in persons : p.id = e.personId /\ p.status = Active}

\* LEFT JOIN employee.user ON user.status = Active
JoinedUser(e) == {u \in users : u.employeeId = e.id /\ u.status = Active}

\* LEFT JOIN user.userRoles ON userRoles.status = Active
JoinedUserRoles(u) == {ur \in userRoles : ur.userId = u.id /\ ur.status = Active}

\* LEFT JOIN userRoles.role ON role.status = Active
JoinedRole(ur) == {r \in roles : r.id = ur.roleId /\ r.status = Active}

\* LEFT JOIN employee.employeeVaccinations ON employeeVaccinations.status = Active
JoinedEmployeeVaccinations(e) ==
    {ev \in employeeVaccinations : ev.employeeId = e.id /\ ev.status = Active}

\* LEFT JOIN employeeVaccinations.vaccine ON vaccine.status = Active
JoinedVaccine(ev) == {v \in vaccines : v.id = ev.vaccineId /\ v.status = Active}

\* getEmployees(): the Employee rows of the joined view, no filters.
getEmployees == {e \in employees : e.status = Active}

\* Faulty variant: the base predicate employee.status = Active is left out.
getEmployee_AnyStatus(dni, email, employeeId) ==
    {e \in employees :
        /\ (dni # 0 => \E p \in JoinedPerson(e) : p.dni = dni)
        /\ (Truthy(email) => e.email = email)
        /\ (employeeId # 0 => e.id = employeeId)}

\* getEmployee(dni?, email?, employeeId?): the rows getOne() can return; it returns
\* one of them, or nothing when the set is empty.
getEmployee(dni, email, employeeId) ==
    {e \in employees :
        /\ e.status = Active
        /\ (dni # 0 => \E p \in JoinedPerson(e) : p.dni = dni)
        /\ (Truthy(email) => e.email = email)
        /\ (employeeId # 0 => e.id = employeeId)}

\* PersonService.getPerson(dni)
getPerson(dni) == {p \in persons : p.dni = dni}

\* RoleService.getRole(name)
getRole(name) == {r \in roles : r.name = name}

----------------------------------------------------------------------------
(* Projection *)

\* x?.field of a nullable joined row.
OptStr(row, field) == IF row = {} THEN Undefined ELSE (CHOOSE x \in row : TRUE)[field]
OptNum(row, field) == IF row = {} THEN 0 ELSE (CHOOSE x \in row : TRUE)[field]

\* One element of mapEmployees.  vaccines and roles are null (isNull) when the
\* joined list is empty, the mapped list otherwise.
mapEmployee(e) ==
    LET person == JoinedPerson(e)
        user == JoinedUser(e)
        evs == JoinedEmployeeVaccinations(e)
        urs == UNION {JoinedUserRoles(u) : u \in user}
    IN  [id |-> e.id,
         dni |-> OptNum(person, "dni"),
         firstName |-> OptStr(person, "firstName"),
         lastName |-> OptStr(person, "lastName"),
         birthDate |-> e.birthDate,
         homeAddress |-> e.homeAddress,
         mobilePhone |-> e.mobilePhone,
         status |-> IF e.status = Active THEN "Active" ELSE "Inactive",
         username |-> OptStr(user, "username"),
         password |-> OptStr(user, "password"),
         vaccinationStatus |-> e.vaccinationStatus,
         vaccines |->
            [isNull |-> evs = {},
             items |-> {[id |-> OptNum(JoinedVaccine(ev), "id"),
                         name |-> OptStr(JoinedVaccine(ev), "vaccineType"),
                         doseNumber |-> ev.doseNumber,
                         vaccinationDate |-> ev.vaccinationDate,
                         employeeVaccinationId |-> ev.id] : ev \in evs}],
         roles |->
            [isNull |-> urs = {},
             items |-> {[id |-> OptNum(JoinedRole(ur), "id"),
                         name |-> OptStr(JoinedRole(ur), "name")] : ur \in urs}]]

\* mapEmployees reads employee.person.dni with no `?.`: it throws a TypeError on
\* an employee whose joined person is null, and the whole call rejects.
mapEmployeesThrows(rows) == \E e \in rows : JoinedPerson(e) = {}

\* listEmployees() with no filters: the call's outcome.
listEmployees ==
    [called |-> TRUE,
     ok |-> ~mapEmployeesThrows(getEmployees),
     rows |-> IF mapEmployeesThrows(getEmployees) THEN {}
              ELSE {mapEmployee(e) : e \in getEmployees}]

----------------------------------------------------------------------------
(* createEmploye *)

\* Faulty variant: the email guard is left out.
createChecks_NoEmailCheck(existPerson, existEmailEmploye, isValidDni) ==
    IF existPerson THEN "dni-exist"
    ELSE IF ~isValidDni THEN "invalid-dni"
    ELSE "ok"

\* The three guards of createEmploye, in the order the code tests them, on the
\* values it read before: "ok" when none throws.
createChecks(existPerson, existEmailEmploye, isValidDni) ==
    IF existPerson THEN "dni-exist"
    ELSE IF existEmailEmploye THEN "email-exist"
    ELSE IF ~isValidDni THEN "invalid-dni"
    ELSE "ok"

NewPerson(dto, id) ==
    [id |-> id, dni |-> dto.dni, firstName |-> dto.firstName,
     lastName |-> dto.lastName, status |-> Active]

NewEmployee(dto, id, personId) ==
    [id |-> id, email |-> dto.email, birthDate |-> dto.birthDate,
     homeAddress |-> dto.homeAddress, mobilePhone |-> dto.mobilePhone,
     vaccinationStatus |-> dto.vaccinationStatus, status |-> Active,
     personId |-> personId]

NewUser(dto, id, employeeId) ==
    [id |-> id, username |-> dto.email, password |-> ToString(dto.dni),
     status |-> Active, employeeId |-> employeeId]

NewUserRole(id, userId, role) ==
    [id |-> id, userId |-> userId,
     roleId |-> IF role = {} THEN 0 ELSE (CHOOSE r \in role : TRUE).id,
     status |-> Active]

\* Faulty variant: the Person is created before the email and format guards.
createWrites_PersonBeforeChecks(dto, outcome) ==
    LET pid == NextId(persons)
        eid == NextId(employees)
        uid == NextId(users)
    IN  IF outcome = "ok"
        THEN /\ persons' = persons \cup {NewPerson(dto, pid)}
             /\ employees' = employees \cup {NewEmployee(dto, eid, pid)}
             /\ users' = users \cup {NewUser(dto, uid, eid)}
             /\ userRoles' = userRoles \cup
                    {NewUserRole(NextId(userRoles), uid, getRole(dto.role))}
        ELSE /\ persons' = IF outcome = "dni-exist" THEN persons
                           ELSE persons \cup {NewPerson(dto, pid)}
             /\ UNCHANGED <<employees, users, userRoles>>

\* What one createEmploye call writes, given the outcome of its guards: the four
\* rows in order when no guard threw, nothing otherwise.
createWrites(dto, outcome) ==
    LET pid == NextId(persons)
        eid == NextId(employees)
        uid == NextId(users)
    IN  IF outcome = "ok"
        THEN /\ persons' = persons \cup {NewPerson(dto, pid)}
             /\ employees' = employees \cup {NewEmployee(dto, eid, pid)}
             /\ users' = users \cup {NewUser(dto, uid, eid)}
             /\ userRoles' = userRoles \cup
                    {NewUserRole(NextId(userRoles), uid, getRole(dto.role))}
        ELSE UNCHANGED <<persons, employees, users, userRoles>>

createEmploye(dto) ==
    LET outcome == createChecks(getPerson(dto.dni) # {},
                                getEmployee(0, dto.email, 0) # {},
                                validateID(dto.dni))
    IN  /\ createWrites(dto, outcome)
        /\ result' = [op |-> "create", outcome |-> outcome, dni |-> dto.dni,
                      email |-> dto.email, role |-> dto.role, type |-> Undefined,
                      id |-> IF outcome = "ok" THEN NextId(employees) ELSE 0,
                      status |-> IF outcome = "ok" THEN Active ELSE Undefined]
        /\ calls' = calls + 1
        /\ UNCHANGED <<roles, employeeVaccinations, vaccines, deleted, proc,
                       filters, query, listed>>

----------------------------------------------------------------------------
(* updateEmployee *)

\* Faulty variant: the soft-delete cascades to the employee's User.
softDelete_Cascade(findEmployee) ==
    /\ employees' = (employees \ {findEmployee})
                        \cup {[findEmployee EXCEPT !.status = Inactive]}
    /\ users' = {IF u.employeeId = findEmployee.id
                 THEN [u EXCEPT !.status = Inactive] ELSE u : u \in users}
    /\ UNCHANGED <<persons, userRoles>>

\* The DELETE branch: employeeRepository.update(id, {status: Inactive}).
softDelete(findEmployee) ==
    /\ employees' = (employees \ {findEmployee})
                        \cup {[findEmployee EXCEPT !.status = Inactive]}
    /\ UNCHANGED <<persons, users, userRoles>>

\* bcrypt.hash(data, saltRounds) rejects when data is null or undefined.
bcryptHashRejects(data) == data = Undefined

\* The UPDATE branch.  It hashes user.password of the UserEntity it has just
\* constructed, a field nothing has assigned, so a dto that carries a password
\* makes the call reject after the Employee and Person rows are written.
\* The outcome is "ok" or "error".
updateOutcome(dto) ==
    IF Truthy(dto.password) /\ bcryptHashRejects(Undefined) THEN "error" ELSE "ok"

applyUpdate(findEmployee, dto) ==
    /\ employees' = (employees \ {findEmployee}) \cup
          {[findEmployee EXCEPT
              !.birthDate = Upd(@, dto.birthDate),
              !.email = Upd(@, dto.email),
              !.homeAddress = Upd(@, dto.homeAddress),
              !.mobilePhone = Upd(@, dto.mobilePhone),
              !.vaccinationStatus = Upd(@, dto.vaccinationStatus)]}
    /\ persons' =
          {IF p \in JoinedPerson(findEmployee)
           THEN [p EXCEPT !.dni = IF validateID(dto.dni) THEN dto.dni ELSE @,
                          !.firstName = Upd(@, dto.firstName),
                          !.lastName = Upd(@, dto.lastName)]
           ELSE p : p \in persons}
    /\ users' =
          IF updateOutcome(dto) = "error" THEN users
          ELSE {IF u \in JoinedUser(findEmployee)
                THEN [u EXCEPT !.username =
                         Upd(@, IF Truthy(dto.email) THEN dto.email ELSE dto.username)]
                ELSE u : u \in users}
    /\ UNCHANGED userRoles

\* Which branch updateEmployee takes.
updateBranch(dni, findEmployee, role, type) ==
    IF dni # 0 /\ findEmployee # {} /\ type = DELETE /\ role = ADMINISTRATOR
    THEN "delete"
    ELSE IF dni # 0 /\ findEmployee # {} /\ type = UPDATE THEN "update"
    ELSE "employee-not-found"

updateEmployee(dni, role, type, dto) ==
    LET found == getEmployee(dni, Undefined, 0)
        branch == updateBranch(dni, found, role, type)
        call == [op |-> "update", dni |-> dni, email |-> dto.email, role |-> role,
                 type |-> type]
    IN  /\ \/ /\ branch = "delete"
              /\ \E findEmployee \in found :
                    /\ softDelete(findEmployee)
                    /\ deleted' = deleted \cup {findEmployee.id}
                    /\ result' = call @@ [outcome |-> "ok", id |-> findEmployee.id,
                                          status |-> Inactive]
           \/ /\ branch = "update"
              /\ \E findEmployee \in found :
                    /\ applyUpdate(findEmployee, dto)
                    /\ result' = call @@ [outcome |-> updateOutcome(dto),
                                          id |-> findEmployee.id, status |-> Undefined]
              /\ UNCHANGED deleted
           \/ /\ branch = "employee-not-found"
              /\ result' = call @@ [outcome |-> "employee-not-found", id |-> 0,
                                    status |-> Undefined]
              /\ UNCHANGED <<persons, employees, users, userRoles, deleted>>
        /\ calls' = calls + 1
        /\ UNCHANGED <<roles, employeeVaccinations, vaccines, proc, filters, query,
                       listed>>

----------------------------------------------------------------------------
(* The service under sequential callers *)

Types == {DELETE, UPDATE, "OTHER"}
CallerRoles == {ADMINISTRATOR, EMPLOYEE}

NoProc == [p \in {} |-> NoResult]
NoFilters == [f \in {} |-> Undefined]
NotListed == [called |-> FALSE, ok |-> TRUE, rows |-> {}]

Init ==
    /\ persons = {} /\ employees = {} /\ users = {} /\ userRoles = {}
    /\ roles = SeedRoles /\ employeeVaccinations = {} /\ vaccines = {}
    /\ result = NoResult /\ calls = 0 /\ deleted = {}
    /\ proc = NoProc /\ filters = NoFilters /\ query = <<>> /\ listed = NotListed

CreateEmployee == calls < MaxCalls /\ \E dto \in CreateDtos : createEmploye(dto)

UpdateEmployee ==
    /\ calls < MaxCalls
    /\ \E dni \in Dnis \cup {0}, role \in CallerRoles, type \in Types, dto \in UpdateDtos :
          updateEmployee(dni, role, type, dto)

Next == CreateEmployee \/ UpdateEmployee

Spec == Init /\ [][Next]_vars

----------------------------------------------------------------------------
(* Properties of the sequential service *)

FailureKinds == {"dni-exist", "email-exist", "invalid-dni", "employee-not-found"}

\* C1: right after a successful createEmploye for (d, e), a createEmploye with the
\* same dni d fails with dni-exist, and one with another, valid, unused dni and the
\* same email e fails with email-exist; neither writes a row.
C1_RepeatedCreateRejected ==
    [][(result.op = "create" /\ result.outcome = "ok" /\ result'.op = "create") =>
         /\ result'.dni = result.dni =>
               (result'.outcome = "dni-exist" /\ UNCHANGED tables)
         /\ (/\ result'.dni # result.dni
             /\ validateID(result'.dni)
             /\ \A p \in persons : p.dni # result'.dni
             /\ result'.email = result.email) =>
               (result'.outcome = "email-exist" /\ UNCHANGED tables)]_vars

\* Both rejections of C1 have happened: one employee exists, created by the first
\* call, and the second call was a create with its email and a fresh valid dni.
C1_Witness ==
    /\ calls = 2 /\ Cardinality(employees) = 1
    /\ result.op = "create" /\ result.outcome = "email-exist"
    /\ validateID(result.dni)
    /\ \E e \in employees : e.email = result.email

\* C2: a successful DELETE returns status Inactive, and from then on the employee
\* it soft-deleted is in no listEmployees() result and is returned by no
\* getEmployee call, whatever dni, email or id is asked for.
C2_DeletedStaysHidden ==
    /\ (result.op = "update" /\ result.type = DELETE /\ result.outcome = "ok")
          => result.status = "Inactive"
    /\ \A id \in deleted :
          /\ listEmployees.ok
          /\ \A r \in listEmployees.rows : r.id # id
          /\ \A dni \in Dnis \cup {0}, email \in Emails \cup {Undefined}, eid \in {0, id} :
                \A e \in getEmployee(dni, email, eid) : e.id # id

\* A soft-deleted employee whose email has since been taken by a newly created one.
C2_Witness ==
    /\ result.op = "create" /\ result.outcome = "ok"
    /\ \E e \in employees : e.id \in deleted /\ e.email = result.email

\* C3: a call that fails with dni-exist, email-exist, invalid-dni or
\* employee-not-found leaves every table as it was.
C3_FailureWritesNothing ==
    [][result'.outcome \in FailureKinds => UNCHANGED tables]_vars

\* A create rejected for its dni format on a store that already holds rows.
C3_Witness ==
    /\ result.op = "create" /\ result.outcome = "invalid-dni"
    /\ employees # {}

\* An Active employee whose person carries the dni.
ActiveEmployeeWithDni(dni) ==
    \E e \in employees : e.status = Active /\
        \E p \in persons : p.id = e.personId /\ p.dni = dni

\* C4 (first half): updateEmployee fails with employee-not-found exactly when no
\* Active employee has the dni, or the type is neither UPDATE nor an
\* ADMINISTRATOR's DELETE.
C4_NotFoundExactly ==
    [][result'.op = "update" =>
         (result'.outcome = "employee-not-found" <=>
            ~(/\ ActiveEmployeeWithDni(result'.dni)
              /\ \/ result'.type = DELETE /\ result'.role = ADMINISTRATOR
                 \/ result'.type = UPDATE))]_vars

\* C4: the first half, and UPDATE on an existing employee succeeds for every role.
C4_UpdateSucceedsForEveryRole ==
    [][result'.op = "update" =>
         /\ result'.outcome = "employee-not-found" <=>
               ~(/\ ActiveEmployeeWithDni(result'.dni)
                 /\ \/ result'.type = DELETE /\ result'.role = ADMINISTRATOR
                    \/ result'.type = UPDATE)
         /\ (ActiveEmployeeWithDni(result'.dni) /\ result'.type = UPDATE)
               => result'.outcome = "ok"]_vars

\* C5: no two Person rows share a dni and no two Employee rows share an email.
C5_UniqueDniAndEmail ==
    /\ \A p1, p2 \in persons : p1.dni = p2.dni => p1 = p2
    /\ \A e1, e2 \in employees : e1.email = e2.email => e1 = e2

\* C6: a successful DELETE turns the status of the one Employee row it returns to
\* Inactive and changes nothing else: no row is removed, every other Employee row
\* and every Person, User, UserRole, Role, EmployeeVaccination and Vaccine row is
\* as before.
C6_SoftDeleteFrame ==
    [][(result'.op = "update" /\ result'.type = DELETE /\ result'.outcome = "ok") =>
         /\ UNCHANGED <<persons, users, userRoles, roles, employeeVaccinations, vaccines>>
         /\ \E e \in employees :
               /\ e.id = result'.id /\ e.status = Active
               /\ employees' = (employees \ {e}) \cup {[e EXCEPT !.status = Inactive]}]_vars

\* A soft-delete done while another employee exists; the deleted employee's
\* person, user and user-role are still Active.
C6_Witness ==
    /\ result.op = "update" /\ result.type = DELETE /\ result.outcome = "ok"
    /\ Cardinality(employees) = 2
    /\ \E e \in employees :
          /\ e.id = result.id /\ e.status = Inactive
          /\ JoinedPerson(e) # {} /\ JoinedUser(e) # {}
          /\ \A u \in JoinedUser(e) : JoinedUserRoles(u) # {}

----------------------------------------------------------------------------
(* Concurrent createEmploye calls.  Each await of createEmploye is one step   *)
(* on the shared store; nothing in the service orders the steps of two calls. *)

Procs == 1 .. NumCalls

WritePcs == {"createPerson", "saveEmployee", "createUser", "createUserRole"}

IdleProc ==
    [pc |-> "idle", dto |-> CHOOSE dto \in CreateDtos : TRUE, existPerson |-> FALSE,
     existEmailEmploye |-> FALSE, outcome |-> "none",
     personId |-> 0, employeeId |-> 0, userId |-> 0, userRoleId |-> 0]

StoreUnchanged == UNCHANGED <<persons, employees, users, userRoles, roles,
                              employeeVaccinations, vaccines>>

RestUnchanged == UNCHANGED <<result, calls, deleted, filters, query, listed>>

\* The call is made with its dto.
beginCreate(p) ==
    /\ proc[p].pc = "idle"
    /\ \E dto \in CreateDtos :
          proc' = [proc EXCEPT ![p].dto = dto, ![p].pc = "getPerson"]
    /\ StoreUnchanged /\ RestUnchanged

\* await this._personService.getPerson(createEmployee.dni)
getPersonStep(p) ==
    /\ proc[p].pc = "getPerson"
    /\ proc' = [proc EXCEPT ![p].existPerson = getPerson(proc[p].dto.dni) # {},
                            ![p].pc = "getEmployee"]
    /\ StoreUnchanged /\ RestUnchanged

\* await this.getEmployee(null, createEmployee.email)
getEmployeeStep(p) ==
    /\ proc[p].pc = "getEmployee"
    /\ proc' = [proc EXCEPT
                  ![p].existEmailEmploye = getEmployee(0, proc[p].dto.email, 0) # {},
                  ![p].pc = "getRole"]
    /\ StoreUnchanged /\ RestUnchanged

\* await this._roleService.getRole(...), then the three guards on the values read.
checkStep(p) ==
    LET outcome == createChecks(proc[p].existPerson, proc[p].existEmailEmploye,
                                validateID(proc[p].dto.dni))
    IN  /\ proc[p].pc = "getRole"
        /\ proc' = [proc EXCEPT
                      ![p].outcome = outcome,
                      ![p].pc = IF outcome = "ok" THEN "createPerson" ELSE "failed"]
        /\ StoreUnchanged /\ RestUnchanged

\* Faulty variant: the insert re-checks the dni and turns the call away.
createPersonStep_UniqueDni(p) ==
    /\ proc[p].pc = "createPerson"
    /\ IF getPerson(proc[p].dto.dni) # {}
       THEN /\ proc' = [proc EXCEPT ![p].outcome = "dni-exist", ![p].pc = "failed"]
            /\ UNCHANGED persons
       ELSE /\ persons' = persons \cup {NewPerson(proc[p].dto, NextId(persons))}
            /\ proc' = [proc EXCEPT ![p].personId = NextId(persons),
                                    ![p].pc = "saveEmployee"]
    /\ UNCHANGED <<employees, users, userRoles, roles, employeeVaccinations, vaccines>>
    /\ RestUnchanged

\* await this._personService.createPerson(person)
createPersonStep(p) ==
    /\ proc[p].pc = "createPerson"
    /\ persons' = persons \cup {NewPerson(proc[p].dto, NextId(persons))}
    /\ proc' = [proc EXCEPT ![p].personId = NextId(persons), ![p].pc = "saveEmployee"]
    /\ UNCHANGED <<employees, users, userRoles, roles, employeeVaccinations, vaccines>>
    /\ RestUnchanged

\* await this._employeeRepository.save(employee)
saveEmployeeStep(p) ==
    /\ proc[p].pc = "saveEmployee"
    /\ employees' = employees \cup
          {NewEmployee(proc[p].dto, NextId(employees), proc[p].personId)}
    /\ proc' = [proc EXCEPT ![p].employeeId = NextId(employees), ![p].pc = "createUser"]
    /\ UNCHANGED <<persons, users, userRoles, roles, employeeVaccinations, vaccines>>
    /\ RestUnchanged

\* await this._userService.createUser(user)
createUserStep(p) ==
    /\ proc[p].pc = "createUser"
    /\ users' = users \cup {NewUser(proc[p].dto, NextId(users), proc[p].employeeId)}
    /\ proc' = [proc EXCEPT ![p].userId = NextId(users), ![p].pc = "createUserRole"]
    /\ UNCHANGED <<persons, employees, userRoles, roles, employeeVaccinations, vaccines>>
    /\ RestUnchanged

\* await this._userRoleService.createUserRole(userRole), then the return.
createUserRoleStep(p) ==
    /\ proc[p].pc = "createUserRole"
    /\ userRoles' = userRoles \cup
          {NewUserRole(NextId(userRoles), proc[p].userId, getRole(proc[p].dto.role))}
    /\ proc' = [proc EXCEPT ![p].userRoleId = NextId(userRoles), ![p].pc = "done"]
    /\ UNCHANGED <<persons, employees, users, roles, employeeVaccinations, vaccines>>
    /\ RestUnchanged

\* Faulty variant: a failed call deletes the rows it had written.
storeFails_Rollback(p) ==
    /\ proc[p].pc \in WritePcs
    /\ proc' = [proc EXCEPT ![p].outcome = "store-error", ![p].pc = "failed"]
    /\ persons' = {r \in persons : r.id # proc[p].personId}
    /\ employees' = {r \in employees : r.id # proc[p].employeeId}
    /\ users' = {r \in users : r.id # proc[p].userId}
    /\ UNCHANGED <<userRoles, roles, employeeVaccinations, vaccines>>
    /\ RestUnchanged

\* The store rejects the write the call is waiting on.  The rejection propagates
\* out of createEmploye: there is no try/catch and no compensating delete.
storeFails(p) ==
    /\ proc[p].pc \in WritePcs
    /\ proc' = [proc EXCEPT ![p].outcome = "store-error", ![p].pc = "failed"]
    /\ StoreUnchanged /\ RestUnchanged

InitConc ==
    /\ persons = {} /\ employees = {} /\ users = {} /\ userRoles = {}
    /\ roles = SeedRoles /\ employeeVaccinations = {} /\ vaccines = {}
    /\ result = NoResult /\ calls = 0 /\ deleted = {}
    /\ proc = [p \in Procs |-> IdleProc]
    /\ filters = NoFilters /\ query = <<>> /\ listed = NotListed

BeginCreate == \E p \in Procs : beginCreate(p)
GetPersonStep == \E p \in Procs : getPersonStep(p)
GetEmployeeStep == \E p \in Procs : getEmployeeStep(p)
CheckStep == \E p \in Procs : checkStep(p)
CreatePersonStep == \E p \in Procs : createPersonStep(p)
SaveEmployeeStep == \E p \in Procs : saveEmployeeStep(p)
CreateUserStep == \E p \in Procs : createUserStep(p)
CreateUserRoleStep == \E p \in Procs : createUserRoleStep(p)
StoreFails == \E p \in Procs : storeFails(p)

NextConc ==
    \/ BeginCreate \/ GetPersonStep \/ GetEmployeeStep \/ CheckStep
    \/ CreatePersonStep \/ SaveEmployeeStep \/ CreateUserStep \/ CreateUserRoleStep
    \/ StoreFails

SpecConc == InitConc /\ [][NextConc]_vars

\* C7: a createEmploye call that has passed its three guards is never turned away
\* for its dni or email afterwards: its Person write adds a row carrying its dni
\* whatever the store holds by then, so two calls that both read before either
\* wrote both create a Person with the same dni.
C7_NothingStopsSecondPerson ==
    [][\A p \in Procs :
          /\ proc[p].pc \in WritePcs => proc'[p].outcome \notin FailureKinds
          /\ (proc[p].pc = "createPerson" /\ proc'[p].pc = "saveEmployee") =>
                \E row \in persons' \ persons :
                    row.dni = proc[p].dto.dni /\ row.id = proc'[p].personId]_vars

\* Two calls for one dni have both created their Person row.
C7_Witness ==
    \E p, q \in Procs :
        /\ p # q /\ proc[p].dto.dni = proc[q].dto.dni
        /\ proc[p].personId # 0 /\ proc[q].personId # 0
        /\ proc[p].personId # proc[q].personId
        /\ \E r1, r2 \in persons :
              /\ r1.id = proc[p].personId /\ r2.id = proc[q].personId
              /\ r1.dni = r2.dni

\* C8: a call writes its Person, then its Employee, then its User, then its
\* UserRole; no step removes a row, and a call that fails at a write leaves
\* every table as it was, so the rows of its earlier writes stay.
C8_OrderedWritesNoRollback ==
    [][/\ persons \subseteq persons' /\ employees \subseteq employees'
       /\ users \subseteq users' /\ userRoles \subseteq userRoles'
       /\ \A p \in Procs :
             /\ (proc[p].pc \in WritePcs /\ proc'[p].pc = "failed") => UNCHANGED tables
             /\ proc'[p].employeeId # proc[p].employeeId =>
                   \E r \in persons : r.id = proc[p].personId
             /\ proc'[p].userId # proc[p].userId =>
                   \E r \in employees :
                       r.id = proc[p].employeeId /\ r.personId = proc[p].personId
             /\ proc'[p].userRoleId # proc[p].userRoleId =>
                   \E r \in users :
                       r.id = proc[p].userId /\ r.employeeId = proc[p].employeeId]_vars

PersonWithoutEmployee ==
    \E r \in persons : \A e \in employees : e.personId # r.id

EmployeeWithoutUser ==
    \E e \in employees : \A u \in users : u.employeeId # e.id

UserWithoutUserRole ==
    \E u \in users : \A ur \in userRoles : ur.userId # u.id

\* One call failed at its second write and another at its third: a Person with no
\* Employee and an Employee with no User are both in the store.
C8_Witness ==
    /\ \A p \in Procs : proc[p].pc = "failed" /\ proc[p].outcome = "store-error"
    /\ \E p \in Procs : proc[p].personId # 0 /\ proc[p].employeeId = 0
    /\ \E p \in Procs : proc[p].employeeId # 0 /\ proc[p].userId = 0
    /\ PersonWithoutEmployee /\ EmployeeWithoutUser

\* A call failed at its fourth write: its User has no UserRole.
C8_WitnessFourthWrite ==
    /\ \E p \in Procs : /\ proc[p].pc = "failed" /\ proc[p].outcome = "store-error"
                        /\ proc[p].userId # 0
    /\ UserWithoutUserRole

----------------------------------------------------------------------------
(* filterEmployees on every filter object of a bounded domain *)

FilterFields ==
    {"dni", "email", "completeName", "vaccine", "isVaccinated", "startDate", "finishDate"}

FilterDtos ==
    [dni : {Undefined, JsZero, "", "17"},
     email : {Undefined, "", "ana"},
     completeName : {Undefined, "", "Ana Diaz"},
     vaccine : {Undefined, "", "Pfizer"},
     isVaccinated : {Undefined, JsFalse, JsTrue},
     startDate : {Undefined, "", "2021-01-01"},
     finishDate : {Undefined, "", "2021-12-31"}]

AndWhere(q, cond, predicate) == IF cond THEN Append(q, predicate) ELSE q

\* Faulty variant: the date predicate is added when either date is given.
filterEmployees_EitherDate(q, f) ==
    LET q1 == AndWhere(q, Truthy(f.dni), "dni")
        q2 == AndWhere(q1, Truthy(f.email), "email")
        q3 == AndWhere(q2, Truthy(f.completeName), "completeName")
        q4 == AndWhere(q3, Truthy(f.vaccine), "vaccine")
        q5 == AndWhere(q4, Truthy(f.isVaccinated), "isVaccinated")
    IN  AndWhere(q5, Truthy(f.startDate) \/ Truthy(f.finishDate), "vaccinationDate")

\* filterEmployees(employees, filters): the andWhere calls it makes, in order.
filterEmployees(q, f) ==
    LET q1 == AndWhere(q, Truthy(f.dni), "dni")
        q2 == AndWhere(q1, Truthy(f.email), "email")
        q3 == AndWhere(q2, Truthy(f.completeName), "completeName")
        q4 == AndWhere(q3, Truthy(f.vaccine), "vaccine")
        q5 == AndWhere(q4, Truthy(f.isVaccinated), "isVaccinated")
    IN  AndWhere(q5, Truthy(f.startDate) /\ Truthy(f.finishDate), "vaccinationDate")

InitFilter ==
    /\ persons = {} /\ employees = {} /\ users = {} /\ userRoles = {}
    /\ roles = SeedRoles /\ employeeVaccinations = {} /\ vaccines = {}
    /\ result = NoResult /\ calls = 0 /\ deleted = {} /\ proc = NoProc
    /\ filters \in FilterDtos /\ query = <<>> /\ listed = NotListed

FilterEmployees ==
    /\ calls = 0
    /\ query' = filterEmployees(query, filters)
    /\ calls' = 1
    /\ UNCHANGED <<persons, employees, users, userRoles, roles, employeeVaccinations,
                   vaccines, result, deleted, proc, filters, listed>>

NextFilter == FilterEmployees

SpecFilter == InitFilter /\ [][NextFilter]_vars

\* Number of times a predicate occurs in the query.
Occurrences(q, predicate) == Cardinality({i \in 1 .. Len(q) : q[i] = predicate})

SingleFields == {"dni", "email", "completeName", "vaccine", "isVaccinated"}

\* A field that is present and is not the empty string.
NonEmpty(v) == v \notin {Undefined, ""}

\* C10 as stated: one predicate for each non-empty field among dni, email,
\* completeName, vaccine and isVaccinated, one date predicate when startDate and
\* finishDate are both non-empty, and no other predicate.
C10_OnePredicatePerNonEmptyField ==
    calls = 1 =>
      /\ \A f \in SingleFields :
            Occurrences(query, f) = IF NonEmpty(filters[f]) THEN 1 ELSE 0
      /\ Occurrences(query, "vaccinationDate") =
            IF NonEmpty(filters.startDate) /\ NonEmpty(filters.finishDate) THEN 1 ELSE 0
      /\ Len(query) = Cardinality({f \in SingleFields : NonEmpty(filters[f])})
                      + Occurrences(query, "vaccinationDate")

\* C10 amended: the same with `truthy` for `non-empty`: a field that is present
\* but falsy (isVaccinated = false, dni = 0) adds no predicate.
C10_OnePredicatePerTruthyField ==
    calls = 1 =>
      /\ \A f \in SingleFields :
            Occurrences(query, f) = IF Truthy(filters[f]) THEN 1 ELSE 0
      /\ Occurrences(query, "vaccinationDate") =
            IF Truthy(filters.startDate) /\ Truthy(filters.finishDate) THEN 1 ELSE 0
      /\ Len(query) = Cardinality({f \in SingleFields : Truthy(filters[f])})
                      + Occurrences(query, "vaccinationDate")
      /\ (\A f \in FilterFields : ~NonEmpty(filters[f])) => query = <<>>
      /\ (~Truthy(filters.startDate) \/ ~Truthy(filters.finishDate)) =>
            Occurrences(query, "vaccinationDate") = 0

\* filterEmployees has run on a filter with a start date and no finish date, and
\* with isVaccinated = false next to a truthy email.
C10_Witness ==
    /\ calls = 1
    /\ Truthy(filters.startDate) /\ filters.finishDate = Undefined
    /\ filters.isVaccinated = JsFalse /\ Truthy(filters.email)
    /\ query = <<"email">>

----------------------------------------------------------------------------
(* listEmployees() on every Active / Inactive combination of one employee's  *)
(* linked rows                                                               *)

Statuses == {Active, Inactive}

ListPerson(st) ==
    [id |-> 1, dni |-> 1, firstName |-> "Ana", lastName |-> "Diaz", status |-> st]

ListEmployee(st) ==
    [id |-> 1, email |-> "a@x.com", birthDate |-> "1990-01-01", homeAddress |-> "home1",
     mobilePhone |-> "0991", vaccinationStatus |-> JsTrue, status |-> st, personId |-> 1]

ListUser(st) ==
    [id |-> 1, username |-> "a@x.com", password |-> "1", status |-> st, employeeId |-> 1]

ListUserRole(st) == [id |-> 1, userId |-> 1, roleId |-> 2, status |-> st]

ListRoles(st) ==
    { [id |-> 1, name |-> ADMINISTRATOR, status |-> Active],
      [id |-> 2, name |-> EMPLOYEE, status |-> st] }

ListEmployeeVaccination(st) ==
    [id |-> 1, employeeId |-> 1, vaccineId |-> 1, doseNumber |-> "1",
     vaccinationDate |-> "2021-06-01", status |-> st]

ListVaccine(st) == [id |-> 1, vaccineType |-> "Pfizer", status |-> st]

InitList ==
    /\ \E st \in Statuses : persons = {ListPerson(st)}
    /\ \E st \in Statuses : employees = {ListEmployee(st)}
    /\ \E st \in Statuses : users = {ListUser(st)}
    /\ \E st \in Statuses : userRoles = {ListUserRole(st)}
    /\ \E st \in Statuses : roles = ListRoles(st)
    /\ \E st \in Statuses : employeeVaccinations \in {{}, {ListEmployeeVaccination(st)}}
    /\ \E st \in Statuses : vaccines = {ListVaccine(st)}
    /\ result = NoResult /\ calls = 0 /\ deleted = {} /\ proc = NoProc
    /\ filters = NoFilters /\ query = <<>> /\ listed = NotListed

ListEmployees ==
    /\ calls = 0
    /\ listed' = listEmployees
    /\ calls' = 1
    /\ UNCHANGED <<persons, employees, users, userRoles, roles, employeeVaccinations,
                   vaccines, result, deleted, proc, filters, query>>

NextList == ListEmployees

SpecList == InitList /\ [][NextList]_vars

\* The record r of employee e carries nothing read from an Inactive linked row.
NoInactiveData(r, e) ==
    /\ (\A p \in persons : p.id = e.personId => p.status = Inactive) =>
          (r.dni = 0 /\ r.firstName = Undefined /\ r.lastName = Undefined)
    /\ (\A u \in users : u.employeeId = e.id => u.status = Inactive) =>
          (r.username = Undefined /\ r.password = Undefined /\ r.roles.isNull)
    /\ \A item \in r.roles.items :
          /\ item.id # 0 => \E ro \in roles : ro.id = item.id /\ ro.status = Active
          /\ item.name # Undefined =>
                \E ro \in roles : ro.name = item.name /\ ro.status = Active
          /\ \E u \in users, ur \in userRoles :
                /\ u.employeeId = e.id /\ ur.userId = u.id
                /\ u.status = Active /\ ur.status = Active
    /\ \A item \in r.vaccines.items :
          /\ \E ev \in employeeVaccinations :
                ev.id = item.employeeVaccinationId /\ ev.status = Active
          /\ item.id # 0 => \E v \in vaccines : v.id = item.id /\ v.status = Active
          /\ item.name # Undefined =>
                \E v \in vaccines : v.vaccineType = item.name /\ v.status = Active

\* C9: whatever the statuses of its linked rows, listEmployees() does not fail and
\* returns, for every Active employee, a record with no data of an Inactive row.
C9_InactiveLinkKeepsParent ==
    listed.called =>
        \A e \in employees : e.status = Active =>
            /\ listed.ok
            /\ \E r \in listed.rows : r.id = e.id /\ NoInactiveData(r, e)

\* C9 where it holds: the same, for the employees whose Person is Active.
C9_HoldsWhenPersonActive ==
    listed.called =>
        \A e \in employees : (e.status = Active /\ JoinedPerson(e) # {}) =>
            /\ listed.ok
            /\ \E r \in listed.rows : r.id = e.id /\ NoInactiveData(r, e)

====
